---- MODULE Spec2Model ----
(***************************************************************************)
(* Program Structure Composition Engine of csesoc/handbook-scraper         *)
(* (src/server/routers/programs.py, src/server/routers/courses.py).        *)
(*                                                                         *)
(* Python values are modelled as follows.                                  *)
(*   str          a TLA+ string (Len, SubSeq and \o act on its characters) *)
(*   dict         a sequence of [k |-> key, v |-> value] records, in       *)
(*                insertion order (Python dicts keep insertion order)      *)
(*   list         a sequence                                               *)
(*   str | list   a description record, see Str and Lst                    *)
(*   an exception [err |-> <exception name>, ...] returned instead of      *)
(*                raised; "none" when the call returns normally            *)
(***************************************************************************)
EXTENDS Integers, Sequences, FiniteSets, TLC

(***************************************************************************)
(* Bounds of the model.                                                    *)
(***************************************************************************)
\* longest disjunction "A or B or ..." and longest description list tried
MaxOptions == 3

\* most containers held by the records the request reads: the curriculum of
\* specialisation COMPA1 and the non_spec_data of program 3778 together; and
\* most containers of one group of a structure handed to
\* course_list_from_structure
MaxContainers == 2

\* longest list of proto-edges tried
MaxProtoEdges == 3

\* most functions handed to compose, and largest argument of the composition
MaxFunctions == 3

(***************************************************************************)
(* The state.                                                              *)
(*   route, programCode, spec   the request being served                   *)
(*   specialisationsCOL, programsCOL, genedPureRaw                         *)
(*                              the record store and the gen-ed pool file  *)
(*   structure, uoc             the locals of the route                    *)
(*   pc, idx                    the statement the route is at, and the     *)
(*                              position of its current loop               *)
(*   response                   what the caller receives                   *)
(*   adds                       the calls of add_subgroup_container so far *)
(*   call, ret                  a call of one of the pure helpers, and     *)
(*                              what it returned                           *)
(***************************************************************************)
VARIABLES route, programCode, spec, specialisationsCOL, programsCOL, genedPureRaw,
          structure, uoc, pc, idx, response, adds, call, ret

vars == <<route, programCode, spec, specialisationsCOL, programsCOL, genedPureRaw,
          structure, uoc, pc, idx, response, adds, call, ret>>

(***************************************************************************)
(* Python str operations.                                                  *)
(***************************************************************************)
UpperLetters == "ABCDEFGHIJKLMNOPQRSTUVWXYZ"

LowerLetters == "abcdefghijklmnopqrstuvwxyz"

Digits == "0123456789"

CharAt(s, i) == SubSeq(s, i, i)

\* c in s, for a one-character string c
IsCharOf(c, s) == \E i \in 1..Len(s) : CharAt(s, i) = c

\* sub in s
Contains(sub, s) ==
    \E i \in 1..(Len(s) - Len(sub) + 1) : SubSeq(s, i, i + Len(sub) - 1) = sub

\* s.startswith(prefix)
StartsWith(s, prefix) ==
    Len(prefix) <= Len(s) /\ SubSeq(s, 1, Len(prefix)) = prefix

\* s.endswith(suffix)
EndsWith(s, suffix) ==
    Len(suffix) <= Len(s) /\ SubSeq(s, Len(s) - Len(suffix) + 1, Len(s)) = suffix

LowerChar(c) ==
    IF IsCharOf(c, UpperLetters)
    THEN CharAt(LowerLetters, CHOOSE i \in 1..Len(UpperLetters) : CharAt(UpperLetters, i) = c)
    ELSE c

RECURSIVE Lower(_)
\* s.lower()
Lower(s) ==
    IF s = "" THEN "" ELSE LowerChar(CharAt(s, 1)) \o Lower(SubSeq(s, 2, Len(s)))

RECURSIVE Split(_, _)
\* s.split(sep): the list of the pieces of s between the occurrences of sep
Split(s, sep) ==
    IF ~Contains(sep, s)
    THEN <<s>>
    ELSE LET i == CHOOSE j \in 1..(Len(s) - Len(sep) + 1) :
                      /\ SubSeq(s, j, j + Len(sep) - 1) = sep
                      /\ \A h \in 1..(j - 1) : SubSeq(s, h, h + Len(sep) - 1) # sep
         IN  <<SubSeq(s, 1, i - 1)>> \o Split(SubSeq(s, i + Len(sep), Len(s)), sep)

(***************************************************************************)
(* Python dict operations on sequences of [k, v] records.                  *)
(***************************************************************************)
EmptyDict == << >>

Item(key, value) == [k |-> key, v |-> value]

\* list(d.keys())
Keys(d) == [i \in 1..Len(d) |-> d[i].k]

\* key in d
HasKey(d, key) == \E i \in 1..Len(d) : d[i].k = key

KeyIndex(d, key) == CHOOSE i \in 1..Len(d) : d[i].k = key

\* d[key], for a key of d
Get(d, key) == d[KeyIndex(d, key)].v

\* d[key] = value: a key already present keeps its place
Put(d, key, value) ==
    IF HasKey(d, key)
    THEN [d EXCEPT ![KeyIndex(d, key)] = Item(key, value)]
    ELSE Append(d, Item(key, value))

RECURSIVE Merge(_, _)
\* a | b
Merge(a, b) ==
    IF b = << >> THEN a ELSE Merge(Put(a, Head(b).k, Head(b).v), Tail(b))

\* x in l, for a list l
InList(x, l) == \E i \in 1..Len(l) : l[i] = x

\* a dict compared as Python compares dicts: as a mapping, whatever the order
AsMapping(d) == {<<d[i].k, d[i].v>> : i \in 1..Len(d)}

(***************************************************************************)
(* Descriptions: a str, or a list of str (one per option of a disjunction) *)
(***************************************************************************)
Str(s) == [isList |-> FALSE, str |-> s, items |-> << >>]

Lst(l) == [isList |-> TRUE, str |-> "", items |-> l]

(***************************************************************************)
(* Results of calls that may raise.                                        *)
(***************************************************************************)
Ok(value) == [err |-> "none", val |-> value]

Raise(exception) == [err |-> exception, val |-> EmptyDict]

(***************************************************************************)
(* The course catalogue the course search reads (server.database): the     *)
(* live collection and the archives, one collection per archived year.     *)
(***************************************************************************)
Course(code, title) == [code |-> code, title |-> title]

coursesCOL ==
    << Course("COMP1511", "PF"), Course("COMP1521", "CSF"), Course("MATH1131", "M1A") >>

ARCHIVED_YEARS == {2020, 2021}

archivesDB ==
    [year \in ARCHIVED_YEARS |->
        IF year = 2021
        THEN << Course("ENGG1000", "EDI") >>
        ELSE << Course("ENGG1000", "Design"), Course("ENGG1811", "Computing"),
                Course("COMP1511", "Programming") >>]

RECURSIVE SortedAscending(_)
\* a slip: the oldest year first
SortedAscending(years) ==
    IF years = {} THEN << >>
    ELSE LET low == CHOOSE y \in years : \A z \in years : y <= z
         IN  <<low>> \o SortedAscending(years \ {low})

RECURSIVE SortedReverse(_)
\* sorted(years, reverse=True)
SortedReverse(years) ==
    IF years = {} THEN << >>
    ELSE LET top == CHOOSE y \in years : \A z \in years : z <= y
         IN  <<top>> \o SortedReverse(years \ {top})

\* collection.find({"code": {"$regex": re.compile("^" + prefix, re.I)}}), for a
\* prefix of letters, digits and spaces: the codes that start with it, whatever
\* the case
FindByRegex(collection, search_string) ==
    LET prefix == SubSeq(search_string, 2, Len(search_string))
    IN  SelectSeq(collection, LAMBDA course : StartsWith(Lower(course.code), Lower(prefix)))

RECURSIVE FirstArchiveHit(_, _)
FirstArchiveHit(years, search_string) ==
    IF years = << >> THEN << >>
    ELSE IF FindByRegex(archivesDB[Head(years)], search_string) # << >>
         THEN FindByRegex(archivesDB[Head(years)], search_string)
         ELSE FirstArchiveHit(Tail(years), search_string)

RECURSIVE CodeToTitle(_)
\* { course["code"]: course["title"] for course in courses }
CodeToTitle(courses) ==
    IF courses = << >> THEN EmptyDict
    ELSE Merge(<<Item(Head(courses).code, Str(Head(courses).title))>>, CodeToTitle(Tail(courses)))

regex_search(search_string) ==
    LET live == FindByRegex(coursesCOL, search_string)
        courses == IF live # << >> THEN live
                   ELSE FirstArchiveHit(SortedReverse(ARCHIVED_YEARS), search_string)
    IN  CodeToTitle(courses)

(***************************************************************************)
(* convert_subgroup_object_to_courses_dict                                 *)
(***************************************************************************)
\* re.match(r"[A-Z]{4}[0-9]{4}", object): the pattern at the start of object
MatchesCourseCode(object) ==
    /\ Len(object) >= 8
    /\ \A i \in 1..4 : IsCharOf(CharAt(object, i), UpperLetters)
    /\ \A i \in 5..8 : IsCharOf(CharAt(object, i), Digits)

RECURSIVE ZipOptions(_, _, _)
\* {c: description[index] for index, c in enumerate(codes)}, from index on;
\* description[index] raises IndexError past the end of the list
ZipOptions(codes, items, index) ==
    IF index > Len(codes) THEN Ok(EmptyDict)
    ELSE IF index > Len(items) THEN Raise("IndexError")
    ELSE LET rest == ZipOptions(codes, items, index + 1)
         IN  IF rest.err # "none" THEN rest
             ELSE Ok(Merge(<<Item(codes[index], Str(items[index]))>>, rest.val))

\* a slip: a fragment is not searched for, but taken for a course code
ConvertWithoutSearch(object, description) ==
    IF Contains(" or ", object) /\ description.isList
    THEN ZipOptions(Split(object, " or "), description.items, 1)
    ELSE Ok(<<Item(object, description)>>)

convert_subgroup_object_to_courses_dict(object, description) ==
    IF Contains(" or ", object) /\ description.isList
    THEN ZipOptions(Split(object, " or "), description.items, 1)
    ELSE IF ~MatchesCourseCode(object)
         THEN Ok(regex_search("^" \o object))
         ELSE Ok(<<Item(object, description)>>)

(***************************************************************************)
(* Containers of the source records (CourseContainer, ProgramContainer).   *)
(* hasType and hasCourses say whether the record holds the key at all;     *)
(* credits_to_complete is 0 when the record holds none.                    *)
(***************************************************************************)
Container(title, type, credits_to_complete, courses, notes) ==
    [title |-> title, hasType |-> TRUE, type |-> type,
     credits_to_complete |-> credits_to_complete,
     hasCourses |-> TRUE, courses |-> courses, notes |-> notes]

WithoutCourses(container) == [container EXCEPT !.hasCourses = FALSE, !.courses = EmptyDict]

WithoutType(container) == [container EXCEPT !.hasType = FALSE, !.type = ""]

\* conditional_type is not None and "rule" in conditional_type
IsRuleContainer(container) == container.hasType /\ Contains("rule", container.type)

\* container.get("type") == "gened"
IsGenedContainer(container) == container.hasType /\ container.type = "gened"

\* a slip: the title of the source kept for every type
StoredTitleAsGiven(container) == container.title

\* the title add_subgroup_container stores the container under
StoredTitle(container) ==
    IF IsGenedContainer(container) THEN "General Education" ELSE container.title

(***************************************************************************)
(* add_subgroup_container                                                  *)
(***************************************************************************)
\* {course: description for course, description in d.items() if course not in exceptions}
NotInExceptions(d, exceptions) == SelectSeq(d, LAMBDA item : ~InList(item.k, exceptions))

RECURSIVE ReduceCourses(_, _, _)

\* rest | {...}, then the items left; converted is what the conversion of the
\* current item gave
ReduceConverted(rest, items, exceptions, converted) ==
    IF converted.err # "none" THEN converted
    ELSE ReduceCourses(Merge(rest, NotInExceptions(converted.val, exceptions)),
                       Tail(items), exceptions)

\* functools.reduce(lambda rest, current: rest | {...}, items, rest)
ReduceCourses(rest, items, exceptions) ==
    IF items = << >> THEN Ok(rest)
    ELSE ReduceConverted(rest, items, exceptions,
             convert_subgroup_object_to_courses_dict(Head(items).k, Head(items).v))

\* structure[type]["content"][title] = {UOC, courses, type, notes}, for the
\* courses the reduce gave.  The value of the assignment is computed before its
\* target is looked up, so an IndexError of the conversion comes before the
\* KeyError of a missing group.
StoreContainer(struct, group, container, courses) ==
    IF courses.err # "none"
    THEN [err |-> courses.err, structure |-> struct, new |-> << >>]
    ELSE IF ~HasKey(struct, group)
    THEN [err |-> "KeyError", structure |-> struct, new |-> << >>]
    ELSE [err |-> "none",
          structure |->
              Put(struct, group,
                  [Get(struct, group) EXCEPT
                      !.content =
                          Put(Get(struct, group).content, StoredTitle(container),
                              [UOC |-> container.credits_to_complete,
                               courses |-> courses.val,
                               type |-> IF container.hasType THEN container.type ELSE "",
                               notes |-> IF group = "Rules" THEN container.notes ELSE ""])]),
          new |-> Keys(courses.val)]

add_subgroup_container(struct, type, container, exceptions) ==
    StoreContainer(struct, IF IsRuleContainer(container) THEN "Rules" ELSE type, container,
                   ReduceCourses(EmptyDict,
                                 IF container.hasCourses THEN container.courses ELSE EmptyDict,
                                 exceptions))

\* one entry of adds
AddCall(type, container, result) == [type |-> type, container |-> container, err |-> result.err]

(***************************************************************************)
(* The record store: collection.find_one({"code": code})                   *)
(***************************************************************************)
WithCode(collection, code) == SelectSeq(collection, LAMBDA doc : doc.code = code)

\* whether find_one returns a document rather than None
Found(collection, code) == WithCode(collection, code) # << >>

find_one(collection, code) == Head(WithCode(collection, code))

(***************************************************************************)
(* get_gen_eds: the pool of the program in genedPureRaw.json; a program    *)
(* the file does not hold raises KeyError                                  *)
(***************************************************************************)
get_gen_eds(code) ==
    IF HasKey(genedPureRaw, code)
    THEN [err |-> "none", courses |-> Get(genedPureRaw, code)]
    ELSE [err |-> "KeyError", courses |-> EmptyDict]

(***************************************************************************)
(* add_geneds_courses                                                      *)
(***************************************************************************)
\* a slip: the title is not lower-cased before the test
IsCoreSubGroupCaseSensitive(sub_group) == Contains("core", sub_group)

\* 'core' in sub_group.lower()
IsCoreSubGroup(sub_group) == Contains("core", Lower(sub_group))

\* "Major" in spec_name or "Honours" in spec_name
IsMajorOrHonours(spec_name) == Contains("Major", spec_name) \/ Contains("Honours", spec_name)

\* the codes the nested sums collect: the courses of every 'core' sub-group of
\* every Major or Honours group of the structure
CoreCourses(struct) ==
    UNION { UNION { {struct[g].v.content[c].v.courses[i].k :
                        i \in DOMAIN struct[g].v.content[c].v.courses} :
                    c \in {c \in DOMAIN struct[g].v.content :
                              IsCoreSubGroup(struct[g].v.content[c].k)} } :
            g \in {g \in DOMAIN struct : IsMajorOrHonours(struct[g].k)} }

\* a slip: the courses of every container of the structure are taken off the
\* pool, those of General Education included
EligibleGenEdsNotPlaced(struct, pool) ==
    {pool[i].k : i \in DOMAIN pool}
        \ UNION { UNION { {struct[g].v.content[c].v.courses[i].k :
                              i \in DOMAIN struct[g].v.content[c].v.courses} :
                          c \in DOMAIN struct[g].v.content } :
                  g \in DOMAIN struct }

\* set(get_gen_eds(programCode)["courses"].keys()) - set(sum(..., []))
EligibleGenEds(struct, pool) == {pool[i].k : i \in DOMAIN pool} \ CoreCourses(struct)

\* list(a set): the elements in an order the hash seed of the process decides
ListsOf(set) ==
    {order \in [1..Cardinality(set) -> set] :
        \A i, j \in 1..Cardinality(set) : i # j => order[i] # order[j]}

\* The orders in which add_geneds_courses may enumerate the eligible gen-eds.
GenEdOrders(struct, code, container) ==
    IF IsGenedContainer(container) /\ ~container.hasCourses /\ HasKey(genedPureRaw, code)
    THEN ListsOf(EligibleGenEds(struct, Get(genedPureRaw, code)))
    ELSE {<< >>}

\* structure["General"]["content"]["General Education"]["courses"] = courses
SetGenEdCourses(struct, courses) ==
    LET general == Get(struct, "General")
        item == Get(general.content, "General Education")
    IN  Put(struct, "General",
            [general EXCEPT !.content = Put(general.content, "General Education",
                                            [item EXCEPT !.courses = courses])])

\* item["courses"] = {course: geneds["courses"][course] for course in gen_ed_courses}
GenEdCourses(geneds, gen_ed_courses) ==
    [i \in 1..Len(gen_ed_courses) |->
        Item(gen_ed_courses[i], Get(geneds.courses, gen_ed_courses[i]))]

\* gen_ed_courses is the list the set difference gives, in the order given
add_geneds_courses(code, struct, container, gen_ed_courses) ==
    IF ~IsGenedContainer(container)
    THEN [err |-> "none", structure |-> struct, new |-> << >>]
    ELSE IF container.hasCourses
    THEN [err |-> "none", structure |-> SetGenEdCourses(struct, EmptyDict), new |-> << >>]
    ELSE IF get_gen_eds(code).err # "none"
    THEN [err |-> "KeyError", structure |-> SetGenEdCourses(struct, EmptyDict), new |-> << >>]
    ELSE [err |-> "none",
          structure |-> SetGenEdCourses(struct, GenEdCourses(get_gen_eds(code), gen_ed_courses)),
          new |-> gen_ed_courses]

(***************************************************************************)
(* add_specialisation                                                      *)
(***************************************************************************)
\* a slip: Major and Minor the wrong way round
SpecialisationTypeSwapped(code) ==
    (IF EndsWith(code, "1") THEN "Minor"
     ELSE IF EndsWith(code, "2") THEN "Major"
     ELSE "Honours") \o " - " \o code

\* the group key: "Major", "Minor" or "Honours" by the last character of the code
SpecialisationType(code) ==
    (IF EndsWith(code, "1") THEN "Major"
     ELSE IF EndsWith(code, "2") THEN "Minor"
     ELSE "Honours") \o " - " \o code

\* a slip: the title tested whatever its case
IsCoreTitleAnyCase(container) == Contains("core", Lower(container.title))

\* "Core" in a["title"]
IsCoreTitle(container) == Contains("Core", container.title)

RECURSIVE AddCores(_, _, _, _, _)

\* exceptions.extend(new), then the Core containers left; added is what
\* add_subgroup_container returned for the current one
AddCoresNext(type, cores, exceptions, log, added) ==
    IF added.err # "none"
    THEN [err |-> added.err, structure |-> added.structure, exceptions |-> exceptions,
          adds |-> Append(log, AddCall(type, Head(cores), added))]
    ELSE AddCores(added.structure, type, Tail(cores), exceptions \o added.new,
                  Append(log, AddCall(type, Head(cores), added)))

\* for cores in filter(...): new = add_subgroup_container(...); exceptions.extend(new)
AddCores(struct, type, cores, exceptions, log) ==
    IF cores = << >>
    THEN [err |-> "none", structure |-> struct, exceptions |-> exceptions, adds |-> log]
    ELSE AddCoresNext(type, cores, exceptions, log,
                      add_subgroup_container(struct, type, Head(cores), exceptions))

RECURSIVE AddOthers(_, _, _, _, _)

\* the other containers left; what add_subgroup_container returned is not
\* added to the exceptions
AddOthersNext(type, others, exceptions, log, added) ==
    IF added.err # "none"
    THEN [err |-> added.err, structure |-> added.structure, exceptions |-> exceptions,
          adds |-> Append(log, AddCall(type, Head(others), added))]
    ELSE AddOthers(added.structure, type, Tail(others), exceptions,
                   Append(log, AddCall(type, Head(others), added)))

\* for container in curriculum: if "Core" not in title: add_subgroup_container(...)
AddOthers(struct, type, others, exceptions, log) ==
    IF others = << >>
    THEN [err |-> "none", structure |-> struct, exceptions |-> exceptions, adds |-> log]
    ELSE AddOthersNext(type, others, exceptions, log,
                       add_subgroup_container(struct, type, Head(others), exceptions))

\* the second loop of add_specialisation, after the first gave cores
AddAfterCores(type, curriculum, cores) ==
    IF cores.err # "none" THEN cores
    ELSE AddOthers(cores.structure, type, SelectSeq(curriculum, LAMBDA a : ~IsCoreTitle(a)),
                   cores.exceptions, cores.adds)

RECURSIVE CoursesOfContent(_)
\* the course codes of the containers of a content, one after the other
CoursesOfContent(content) ==
    IF content = << >> THEN << >>
    ELSE Keys(Head(content).v.courses) \o CoursesOfContent(Tail(content))

RECURSIVE PlacedCourses(_)
\* the course codes of every container of every group of a structure
PlacedCourses(struct) ==
    IF struct = << >> THEN << >>
    ELSE CoursesOfContent(Head(struct).v.content) \o PlacedCourses(Tail(struct))

\* a slip: the exceptions start from the courses the structure already holds
add_specialisation_shared_exceptions(struct, code) ==
    IF ~Found(specialisationsCOL, code)
    THEN [err |-> "HTTP400", structure |-> struct, exceptions |-> << >>, adds |-> << >>]
    ELSE AddAfterCores(SpecialisationType(code), find_one(specialisationsCOL, code).curriculum,
             AddCores(Put(struct, SpecialisationType(code),
                          [name |-> find_one(specialisationsCOL, code).name,
                           content |-> EmptyDict]),
                      SpecialisationType(code),
                      SelectSeq(find_one(specialisationsCOL, code).curriculum, IsCoreTitle),
                      PlacedCourses(struct), << >>))

add_specialisation(struct, code) ==
    IF ~Found(specialisationsCOL, code)
    THEN [err |-> "HTTP400", structure |-> struct, exceptions |-> << >>, adds |-> << >>]
    ELSE AddAfterCores(SpecialisationType(code), find_one(specialisationsCOL, code).curriculum,
             AddCores(Put(struct, SpecialisationType(code),
                          [name |-> find_one(specialisationsCOL, code).name,
                           content |-> EmptyDict]),
                      SpecialisationType(code),
                      SelectSeq(find_one(specialisationsCOL, code).curriculum, IsCoreTitle),
                      << >>, << >>))

RECURSIVE Reversed(_)
Reversed(l) == IF l = << >> THEN << >> ELSE Reversed(Tail(l)) \o <<Head(l)>>

\* a slip: the specialisations taken from the last to the first
RequestedSpecsReversed(s) == IF s = "" THEN << >> ELSE Reversed(Split(s, "+"))

\* spec.split("+") if "+" in spec else [spec]; no specialisation when spec is
\* None or empty ("" stands for both: `if spec` is false of both)
RequestedSpecs(s) == IF s = "" THEN << >> ELSE Split(s, "+")

(***************************************************************************)
(* add_program_code_details                                                *)
(***************************************************************************)
add_program_code_details(struct, code) ==
    IF ~Found(programsCOL, code)
    THEN [err |-> "HTTP400", structure |-> struct, uoc |-> 0]
    ELSE [err |-> "none",
          structure |-> Put(Put(struct, "General",
                                [name |-> "General Program Requirements", content |-> EmptyDict]),
                            "Rules", [name |-> "General Program Rules", content |-> EmptyDict]),
          uoc |-> find_one(programsCOL, code).UOC]

(***************************************************************************)
(* course_list_from_structure.  The search walks any nesting of dicts, so  *)
(* the structure is first written as the Python value it is: every value   *)
(* tagged "dict", "str", "list" or "int".                                  *)
(***************************************************************************)
PyDict(items) == [tag |-> "dict", str |-> "", items |-> items]

PyStr(s) == [tag |-> "str", str |-> s, items |-> << >>]

PyList(l) == [tag |-> "list", str |-> "", items |-> l]

PyInt == [tag |-> "int", str |-> "", items |-> << >>]

PyDescription(description) ==
    IF description.isList THEN PyList(description.items) ELSE PyStr(description.str)

PyCourses(courses) ==
    PyDict([i \in 1..Len(courses) |-> Item(courses[i].k, PyDescription(courses[i].v))])

\* the dict literal add_subgroup_container stores: UOC, courses, type, notes
PyContainer(content) ==
    PyDict(<< Item("UOC", PyInt), Item("courses", PyCourses(content.courses)),
              Item("type", PyStr(content.type)), Item("notes", PyStr(content.notes)) >>)

\* the dict literal of a group: name, content
PyGroup(group) ==
    PyDict(<< Item("name", PyStr(group.name)),
              Item("content",
                   PyDict([i \in 1..Len(group.content) |->
                              Item(group.content[i].k, PyContainer(group.content[i].v))])) >>)

PyStructure(struct) ==
    PyDict([i \in 1..Len(struct) |-> Item(struct[i].k, PyGroup(struct[i].v))])

\* "rule" in v["type"], for a dict v that holds the key "type"
RuleInType(v) ==
    LET type == Get(v.items, "type")
    IN  CASE type.tag = "str" -> Contains("rule", type.str)
          [] type.tag = "dict" -> HasKey(type.items, "rule")
          [] OTHER -> InList("rule", type.items)

RECURSIVE recursive_course_search(_)
\* the codes the loop over items (the pairs of structure.items()) appends to courses
recursive_course_search(items) ==
    IF items = << >> THEN << >>
    ELSE LET k == Head(items).k
             v == Head(items).v
             skipped == \/ v.tag # "dict"
                        \/ HasKey(v.items, "type") /\ RuleInType(v)
             found == IF skipped THEN << >>
                      ELSE (IF Contains("courses", k) THEN Keys(v.items) ELSE << >>)
                           \o recursive_course_search(v.items)
         IN  found \o recursive_course_search(Tail(items))

course_list_from_structure(struct) == recursive_course_search(PyStructure(struct).items)

(***************************************************************************)
(* proto_edges_to_edges and prune_edges.  A proto-edge is the dict         *)
(* {original, courses}; isEmpty says it is the empty dict, hasCourses      *)
(* whether it holds the key "courses".                                     *)
(***************************************************************************)
ProtoEdge(original, courses) ==
    [isEmpty |-> FALSE, hasCourses |-> TRUE, original |-> original, courses |-> courses]

EmptyProtoEdge == [isEmpty |-> TRUE, hasCourses |-> FALSE, original |-> "", courses |-> << >>]

WithoutCoursesKey(proto_edge) == [proto_edge EXCEPT !.hasCourses = FALSE, !.courses = << >>]

Edge(source, target) == [source |-> source, target |-> target]

\* a slip: source and target the other way round
EdgesOfSwapped(proto_edge) ==
    [i \in 1..Len(proto_edge.courses) |->
        [source |-> proto_edge.original, target |-> proto_edge.courses[i]]]

\* the edges of one proto-edge: {"source": course, "target": proto_edge["original"]}
EdgesOf(proto_edge) ==
    [i \in 1..Len(proto_edge.courses) |-> Edge(proto_edge.courses[i], proto_edge.original)]

RECURSIVE proto_edges_to_edges(_)
\* proto_edge["courses"] raises KeyError when the dict is not empty and has no such key
proto_edges_to_edges(proto_edges) ==
    IF proto_edges = << >> THEN Ok(<< >>)
    ELSE LET proto_edge == Head(proto_edges)
             rest == proto_edges_to_edges(Tail(proto_edges))
         IN  IF proto_edge.isEmpty THEN rest
             ELSE IF ~proto_edge.hasCourses THEN Raise("KeyError")
             ELSE IF rest.err # "none" THEN rest
             ELSE Ok(EdgesOf(proto_edge) \o rest.val)

\* a slip: the target of an edge is not looked at
PruneBySourceOnly(edges, courses) ==
    SelectSeq(edges, LAMBDA edge : InList(edge.source, courses))

prune_edges(edges, courses) ==
    SelectSeq(edges, LAMBDA edge : InList(edge.source, courses) /\ InList(edge.target, courses))

(***************************************************************************)
(* The records the routes are run on.                                      *)
(***************************************************************************)
\* the sequences over the elements of pool, up to length n
SeqsUpTo(pool, n) == UNION {[1..m -> pool] : m \in 0..n}

\* the containers a curriculum of COMPA1 is drawn from
SpecContainers ==
    { Container("Core Courses", "core", 6, <<Item("COMP1511", Str("PF"))>>, ""),
      Container("Level 2 Core Courses", "core", 12, <<Item("COMP15", Str(""))>>, ""),
      Container("Computing Electives", "elective", 6,
                <<Item("COMP1511", Str("PF")),
                  Item("COMP1521 or MATH1131", Lst(<<"CSF", "M1A">>))>>, ""),
      Container("Discipline core courses", "elective", 6, <<Item("MATH1131", Str("M1A"))>>, ""),
      Container("Breadth Electives", "gened", 6, <<Item("MATH1131", Str("M1A"))>>, ""),
      WithoutCourses(Container("Program Rules", "info_rule", 0, EmptyDict, "Read me")) }

\* the containers the non_spec_data of program 3778 is drawn from
ProgramContainers ==
    { WithoutCourses(Container("General Education", "gened", 12, EmptyDict, "")),
      Container("Gen Ed Options", "gened", 12, <<Item("COMP1511", Str("PF"))>>, ""),
      WithoutType(Container("Free Electives", "", 36, <<Item("COMP1511", Str("PF"))>>, "")),
      WithoutCourses(Container("Maturity Rule", "maturity_rule", 0, EmptyDict, "Level 1 first")) }

Specialisation(code, name, curriculum) ==
    [code |-> code, name |-> name, curriculum |-> curriculum]

\* hasNonSpec: whether the record holds components.non_spec_data
Program(code, UOC, non_spec_data) ==
    [code |-> code, UOC |-> UOC, hasNonSpec |-> TRUE, non_spec_data |-> non_spec_data]

Specialisations(curriculum) ==
    << Specialisation("COMPA1", "Computer Science", curriculum),
       Specialisation("FINSA2", "Finance",
           << Container("Core Courses", "core", 18, <<Item("COMP1511", Str("PF"))>>, "") >>),
       Specialisation("COMPZH", "Computer Science (Honours)",
           << Container("Honours Core", "core", 6, <<Item("MATH1131", Str("M1A"))>>, "") >>) >>

\* program 3707 has no entry in the gen-ed pool file
Programs(non_spec_data) ==
    << Program("3778", 144, non_spec_data),
       Program("3707", 192,
           << WithoutCourses(Container("General Education", "gened", 12, EmptyDict, "")),
              Container("Free Electives", "elective", 36, <<Item("COMP1521", Str("CSF"))>>, "") >>) >>

GenEdPools ==
    << Item("3778", << Item("COMP1511", Str("PF")), Item("MATH1131", Str("M1A")),
                       Item("ARTS1010", Str("Words")) >>) >>

Routes == {"getStructure", "getStructureCourseList"}

ProgramCodes == {"3778", "3707", "9999"}

\* the spec path parameter; "" is the request without one
SpecStrings == {"", "COMPA1", "FINSA2+COMPA1", "COMPA1+COMPZH", "COMPA1+NOPE1"}

NoResponse ==
    [status |-> 0, error |-> "none", structure |-> EmptyDict, uoc |-> 0, courses |-> << >>]

NoCall ==
    [fn |-> "none", object |-> "", description |-> Str(""), struct |-> EmptyDict,
     proto_edges |-> << >>, edges |-> << >>, courses |-> << >>,
     functions |-> << >>, argument |-> 0]

NoReturn == [done |-> FALSE, err |-> "none", val |-> << >>]

Init ==
    /\ route \in Routes
    /\ programCode \in ProgramCodes
    /\ spec \in SpecStrings
    /\ \E curriculum \in SeqsUpTo(SpecContainers, MaxContainers) :
       \E non_spec_data \in SeqsUpTo(ProgramContainers, MaxContainers - Len(curriculum)) :
          /\ specialisationsCOL = Specialisations(curriculum)
          /\ programsCOL = Programs(non_spec_data)
    /\ genedPureRaw = GenEdPools
    /\ structure = EmptyDict
    /\ uoc = 0
    /\ pc = "add_specialisations"
    /\ idx = 1
    /\ response = NoResponse
    /\ adds = << >>
    /\ call = NoCall
    /\ ret = NoReturn

(***************************************************************************)
(* The routes get_structure and get_structure_course_list, statement by    *)
(* statement.  An HTTPException gives its status code; any other exception *)
(* that leaves the route is answered with status 500.                      *)
(***************************************************************************)
Failure(exception) ==
    [NoResponse EXCEPT !.status = IF exception = "HTTP400" THEN 400 ELSE 500,
                       !.error = exception]

\* server.manual_fixes.apply_manual_fixes: the manual overrides, none of which
\* is held for the programs of this model
apply_manual_fixes(struct, code) == struct

\* what the loop of add_specialisations does with what add_specialisation gave
AfterAddSpecialisation(added) ==
    /\ structure' = added.structure
    /\ adds' = adds \o added.adds
    /\ IF added.err = "none"
       THEN /\ idx' = idx + 1
            /\ UNCHANGED <<pc, response>>
       ELSE /\ pc' = "raised"
            /\ response' = Failure(added.err)
            /\ UNCHANGED idx

\* add_specialisations: its loop, one add_specialisation at a time
AddSpecialisations ==
    /\ pc = "add_specialisations"
    /\ IF idx > Len(RequestedSpecs(spec))
       THEN /\ pc' = "add_program_code_details"
            /\ UNCHANGED <<structure, adds, idx, response>>
       ELSE AfterAddSpecialisation(add_specialisation(structure, RequestedSpecs(spec)[idx]))
    /\ UNCHANGED <<route, programCode, spec, specialisationsCOL, programsCOL, genedPureRaw,
                   uoc, call, ret>>

AfterAddProgramCodeDetails(details) ==
    /\ structure' = details.structure
    /\ uoc' = details.uoc
    /\ IF details.err = "none"
       THEN /\ pc' = IF route = "getStructure" THEN "add_geneds_to_structure"
                                                ELSE "apply_manual_fixes"
            /\ UNCHANGED response
       ELSE /\ pc' = "raised"
            /\ response' = Failure(details.err)

AddProgramCodeDetails ==
    /\ pc = "add_program_code_details"
    /\ AfterAddProgramCodeDetails(add_program_code_details(structure, programCode))
    /\ idx' = 1
    /\ UNCHANGED <<route, programCode, spec, specialisationsCOL, programsCOL, genedPureRaw,
                   adds, call, ret>>

\* the end of one turn of the loop: a KeyError of add_geneds_courses ends the loop
AfterAddGenedsCourses(geneds) ==
    /\ structure' = geneds.structure
    /\ pc' = IF geneds.err = "KeyError" THEN "apply_manual_fixes" ELSE pc
    /\ UNCHANGED response

\* one turn of the loop, after add_subgroup_container gave added
AfterAddToGeneral(container, added) ==
    /\ adds' = Append(adds, AddCall("General", container, added))
    /\ idx' = idx + 1
    /\ IF added.err = "KeyError"
       THEN /\ pc' = "apply_manual_fixes"
            /\ UNCHANGED <<structure, response>>
       ELSE IF added.err # "none"
       THEN /\ pc' = "raised"
            /\ response' = Failure(added.err)
            /\ UNCHANGED structure
       ELSE IF ~IsGenedContainer(container)
       THEN /\ structure' = added.structure
            /\ UNCHANGED <<pc, response>>
       ELSE \E gen_ed_courses \in GenEdOrders(added.structure, programCode, container) :
               AfterAddGenedsCourses(add_geneds_courses(programCode, added.structure,
                                                        container, gen_ed_courses))

\* add_geneds_to_structure: its loop, one container of non_spec_data at a time.
\* A KeyError raised inside `with suppress(KeyError)` ends the loop silently.
AddGenedsToStructure ==
    /\ pc = "add_geneds_to_structure"
    /\ IF ~Found(programsCOL, programCode)
       THEN /\ pc' = "raised"
            /\ response' = Failure("HTTP400")
            /\ UNCHANGED <<structure, adds, idx>>
       ELSE IF \/ ~find_one(programsCOL, programCode).hasNonSpec
               \/ idx > Len(find_one(programsCOL, programCode).non_spec_data)
       THEN /\ pc' = "apply_manual_fixes"
            /\ UNCHANGED <<structure, adds, idx, response>>
       ELSE AfterAddToGeneral(
                find_one(programsCOL, programCode).non_spec_data[idx],
                add_subgroup_container(structure, "General",
                                       find_one(programsCOL, programCode).non_spec_data[idx],
                                       << >>))
    /\ UNCHANGED <<route, programCode, spec, specialisationsCOL, programsCOL, genedPureRaw,
                   uoc, call, ret>>

GetStructureReturn ==
    /\ pc = "apply_manual_fixes"
    /\ route = "getStructure"
    /\ structure' = apply_manual_fixes(structure, programCode)
    /\ response' = [NoResponse EXCEPT !.status = 200, !.structure = structure', !.uoc = uoc]
    /\ pc' = "returned"
    /\ UNCHANGED <<route, programCode, spec, specialisationsCOL, programsCOL, genedPureRaw,
                   uoc, idx, adds, call, ret>>

GetStructureCourseListReturn ==
    /\ pc = "apply_manual_fixes"
    /\ route = "getStructureCourseList"
    /\ structure' = apply_manual_fixes(structure, programCode)
    /\ response' = [NoResponse EXCEPT !.status = 200,
                                      !.courses = course_list_from_structure(structure')]
    /\ pc' = "returned"
    /\ UNCHANGED <<route, programCode, spec, specialisationsCOL, programsCOL, genedPureRaw,
                   uoc, idx, adds, call, ret>>

Next ==
    \/ AddSpecialisations
    \/ AddProgramCodeDetails
    \/ AddGenedsToStructure
    \/ GetStructureReturn
    \/ GetStructureCourseListReturn

Spec == Init /\ [][Next]_vars

(***************************************************************************)
(* get_course (courses.py).  A document of the catalogue is the dict of    *)
(* its keys: _id, code, title; None is written "None".                     *)
(***************************************************************************)
None == "None"

Document(course) ==
    << Item("_id", course.code), Item("code", course.code), Item("title", course.title) >>

\* d.setdefault(key, value)
SetDefault(d, key, value) == IF HasKey(d, key) THEN d ELSE Append(d, Item(key, value))

\* del d[key], for a key of d
Del(d, key) == SelectSeq(d, LAMBDA item : item.k # key)

RECURSIVE FirstArchived(_, _)
\* the loop over the archived years: the documents found by the first year that
\* holds the code, none when no year does
FirstArchived(years, courseCode) ==
    IF years = << >> THEN << >>
    ELSE IF Found(archivesDB[Head(years)], courseCode)
         THEN << find_one(archivesDB[Head(years)], courseCode) >>
         ELSE FirstArchived(Tail(years), courseCode)

\* result.setdefault("school", None); del result["_id"]; the documents hold no
\* "exclusions", so the last del raises the KeyError that is suppressed
ReturnedCourse(result) == Del(SetDefault(result, "school", None), "_id")

\* what get_course does with what the archives gave
FromArchives(archived) ==
    IF archived = << >> THEN Raise("HTTP400")
    ELSE Ok(ReturnedCourse(Put(SetDefault(Document(Head(archived)), "raw_requirements", ""),
                               "is_legacy", TRUE)))

get_course(courseCode) ==
    IF Found(coursesCOL, courseCode)
    THEN Ok(ReturnedCourse(Put(Document(find_one(coursesCOL, courseCode)), "is_legacy", FALSE)))
    ELSE FromArchives(FirstArchived(SortedReverse(ARCHIVED_YEARS), courseCode))

(***************************************************************************)
(* compose.  The functions handed to it are named; Apply is the call of    *)
(* one of them on an integer.                                              *)
(***************************************************************************)
Functions == {"successor", "double", "negate"}

Apply(function, x) ==
    CASE function = "successor" -> x + 1
      [] function = "double" -> 2 * x
      [] function = "negate" -> 0 - x

RECURSIVE Reduced(_, _)
\* the call, on x, of the function functools.reduce(lambda f, g: lambda *args:
\* f(g(*args)), functions) returns for a non-empty functions: with f the
\* reduction of all but the last function and g the last, f(g(x))
Reduced(functions, x) ==
    IF Len(functions) = 1 THEN Apply(functions[1], x)
    ELSE Reduced(SubSeq(functions, 1, Len(functions) - 1), Apply(functions[Len(functions)], x))

\* compose(*functions)(x); reduce of an empty sequence with no initial value
\* raises TypeError
compose(functions, x) ==
    IF functions = << >> THEN [err |-> "TypeError", val |-> 0]
    ELSE [err |-> "none", val |-> Reduced(functions, x)]

(***************************************************************************)
(* Calls of the helpers on their own: convert_subgroup_object_to_courses_  *)
(* dict, course_list_from_structure, proto_edges_to_edges and prune_edges. *)
(* call holds the arguments, ret what the call returned.                   *)
(***************************************************************************)
CodePool == <<"COMP1511", "COMP1521", "MATH1131", "ENGG1000", "COMP1511">>

RECURSIVE Disjunction(_)
\* the first n codes of CodePool joined by " or "
Disjunction(n) == IF n = 1 THEN CodePool[1] ELSE Disjunction(n - 1) \o " or " \o CodePool[n]

\* the object specs tried: exact codes, disjunctions, fragments to search for,
\* and a code followed by another character
ObjectSpecs ==
    {Disjunction(n) : n \in 1..MaxOptions}
        \cup {"COMP15", "comp1521", "ENGG1", "ZZZZ9", "COMP1521 or COMP1521", "COMP1511X"}

\* the descriptions tried: a str, and the lists of up to MaxOptions descriptions
Descriptions ==
    {Str("x")} \cup {Lst([i \in 1..n |-> "d" \o ToString(i)]) : n \in 0..MaxOptions}

\* the containers, as stored, that the structures handed to
\* course_list_from_structure are made of
Stored(title, type, courses, notes) ==
    Item(title, [UOC |-> 6, courses |-> courses, type |-> type, notes |-> notes])

StoredContainers ==
    { Stored("Core Courses", "core",
             <<Item("COMP1511", Str("PF")), Item("COMP1521", Str("CSF"))>>, ""),
      Stored("Discipline core courses", "elective", <<Item("MATH1131", Str("M1A"))>>, ""),
      Stored("General Education", "gened", <<Item("COMP1511", Lst(<<"PF">>))>>, ""),
      Stored("Program Rules", "info_rule", <<Item("ENGG1000", Str("EDI"))>>, "Read me") }

\* the contents of a group: up to MaxContainers containers of distinct titles
Contents ==
    {content \in SeqsUpTo(StoredContainers, MaxContainers) :
        \A i, j \in DOMAIN content : i # j => content[i].k # content[j].k}

Structures ==
    {<< Item("Major - COMPA1", [name |-> "Computer Science", content |-> major]),
        Item("General", [name |-> "General Program Requirements", content |-> general]) >> :
        major \in Contents, general \in Contents}

ProtoEdgePool ==
    { ProtoEdge("COMP2521", <<"COMP1511", "COMP1521">>),
      ProtoEdge("COMP1521", <<"COMP1511">>),
      ProtoEdge("COMP1511", << >>),
      EmptyProtoEdge,
      WithoutCoursesKey(ProtoEdge("MATH1131", << >>)) }

ProtoEdgeLists == SeqsUpTo(ProtoEdgePool, MaxProtoEdges)

\* the lists of edges handed to prune_edges
EdgeLists ==
    {proto_edges_to_edges(proto_edges).val :
        proto_edges \in {l \in ProtoEdgeLists : proto_edges_to_edges(l).err = "none"}}

\* the lists of retained courses handed to prune_edges
\* the course codes get_course is asked for: live and archived, archived in
\* both years, archived in one, and in none
CourseCodes == {"COMP1511", "ENGG1000", "ENGG1811", "ZZZZ9999"}

CourseLists ==
    { << >>, <<"COMP1511">>, <<"COMP2521">>, <<"COMP1511", "COMP1521">>,
      <<"COMP1511", "COMP2521">>, <<"COMP1521", "COMP2521">>,
      <<"COMP1511", "COMP1521", "COMP2521">> }

Calls ==
    {[NoCall EXCEPT !.fn = "convert_subgroup_object_to_courses_dict",
                    !.object = object, !.description = description] :
        object \in ObjectSpecs, description \in Descriptions}
    \cup {[NoCall EXCEPT !.fn = "course_list_from_structure", !.struct = struct] :
             struct \in Structures}
    \cup {[NoCall EXCEPT !.fn = "proto_edges_to_edges", !.proto_edges = proto_edges] :
             proto_edges \in ProtoEdgeLists}
    \cup {[NoCall EXCEPT !.fn = "prune_edges", !.edges = edges, !.courses = courses] :
             edges \in EdgeLists, courses \in CourseLists}
    \cup {[NoCall EXCEPT !.fn = "get_course", !.object = courseCode] :
             courseCode \in CourseCodes}
    \cup {[NoCall EXCEPT !.fn = "compose", !.functions = functions, !.argument = x] :
             functions \in SeqsUpTo(Functions, MaxFunctions), x \in 0..MaxFunctions}

InitFn ==
    /\ call \in Calls
    /\ ret = NoReturn
    /\ route = "none"
    /\ programCode = ""
    /\ spec = ""
    /\ specialisationsCOL = Specialisations(<< >>)
    /\ programsCOL = Programs(<< >>)
    /\ genedPureRaw = GenEdPools
    /\ structure = EmptyDict
    /\ uoc = 0
    /\ pc = "idle"
    /\ idx = 1
    /\ response = NoResponse
    /\ adds = << >>

Returned(result) == [done |-> TRUE, err |-> result.err, val |-> result.val]

ConvertSubgroupObject ==
    /\ call.fn = "convert_subgroup_object_to_courses_dict"
    /\ ~ret.done
    /\ ret' = Returned(convert_subgroup_object_to_courses_dict(call.object, call.description))
    /\ UNCHANGED <<route, programCode, spec, specialisationsCOL, programsCOL, genedPureRaw,
                   structure, uoc, pc, idx, response, adds, call>>

CourseListFromStructure ==
    /\ call.fn = "course_list_from_structure"
    /\ ~ret.done
    /\ ret' = Returned(Ok(course_list_from_structure(call.struct)))
    /\ UNCHANGED <<route, programCode, spec, specialisationsCOL, programsCOL, genedPureRaw,
                   structure, uoc, pc, idx, response, adds, call>>

ProtoEdgesToEdges ==
    /\ call.fn = "proto_edges_to_edges"
    /\ ~ret.done
    /\ ret' = Returned(proto_edges_to_edges(call.proto_edges))
    /\ UNCHANGED <<route, programCode, spec, specialisationsCOL, programsCOL, genedPureRaw,
                   structure, uoc, pc, idx, response, adds, call>>

PruneEdges ==
    /\ call.fn = "prune_edges"
    /\ ~ret.done
    /\ ret' = Returned(Ok(prune_edges(call.edges, call.courses)))
    /\ UNCHANGED <<route, programCode, spec, specialisationsCOL, programsCOL, genedPureRaw,
                   structure, uoc, pc, idx, response, adds, call>>

GetCourse ==
    /\ call.fn = "get_course"
    /\ ~ret.done
    /\ ret' = Returned(get_course(call.object))
    /\ UNCHANGED <<route, programCode, spec, specialisationsCOL, programsCOL, genedPureRaw,
                   structure, uoc, pc, idx, response, adds, call>>

Compose ==
    /\ call.fn = "compose"
    /\ ~ret.done
    /\ ret' = Returned(compose(call.functions, call.argument))
    /\ UNCHANGED <<route, programCode, spec, specialisationsCOL, programsCOL, genedPureRaw,
                   structure, uoc, pc, idx, response, adds, call>>

NextFn ==
    \/ ConvertSubgroupObject
    \/ CourseListFromStructure
    \/ ProtoEdgesToEdges
    \/ PruneEdges
    \/ GetCourse
    \/ Compose

SpecFn == InitFn /\ [][NextFn]_vars

(***************************************************************************)
(* get_structure_course_list as one call: what the route returns for a     *)
(* program code and a spec string, on the records of the state.            *)
(***************************************************************************)
RECURSIVE add_specialisations(_, _, _)

\* the loop of add_specialisations from position m on, after add_specialisation
\* gave added for the specialisation before
AddSpecialisationsNext(specs, m, added) ==
    IF added.err # "none" THEN [err |-> added.err, structure |-> added.structure]
    ELSE add_specialisations(added.structure, specs, m)

\* for m in specs: add_specialisation(structure, m)
add_specialisations(struct, specs, m) ==
    IF m > Len(specs) THEN [err |-> "none", structure |-> struct]
    ELSE AddSpecialisationsNext(specs, m + 1, add_specialisation(struct, specs[m]))

\* structure, _ = add_program_code_details(structure, programCode), then the
\* return of the flattened structure
CourseListAfterDetails(code, details) ==
    IF details.err # "none" THEN Failure(details.err)
    ELSE [NoResponse EXCEPT
             !.status = 200,
             !.courses = course_list_from_structure(apply_manual_fixes(details.structure, code))]

CourseListAfterSpecialisations(code, added) ==
    IF added.err # "none" THEN Failure(added.err)
    ELSE CourseListAfterDetails(code, add_program_code_details(added.structure, code))

get_structure_course_list(code, s) ==
    CourseListAfterSpecialisations(code, add_specialisations(EmptyDict, RequestedSpecs(s), 1))

(***************************************************************************)
(* Vocabulary of the properties.                                           *)
(***************************************************************************)
\* the specialisations whose add_specialisation has returned
AddedSpecs ==
    IF pc = "raised" \/ pc = "idle" THEN << >>
    ELSE IF pc = "add_specialisations" THEN SubSeq(RequestedSpecs(spec), 1, idx - 1)
    ELSE RequestedSpecs(spec)

\* the course codes a container of a source record lists, before any exception
Listed(container) ==
    LET resolved == ReduceCourses(EmptyDict,
                                  IF container.hasCourses THEN container.courses ELSE EmptyDict,
                                  << >>)
    IN  {resolved.val[i].k : i \in DOMAIN resolved.val}

\* the content of a group of the structure, empty when the structure has no such group
ContentOf(struct, group) ==
    IF HasKey(struct, group) THEN Get(struct, group).content ELSE EmptyDict

\* the course codes of the container stored under title in content
CodesUnder(content, title) ==
    IF HasKey(content, title)
    THEN {Get(content, title).courses[i].k : i \in DOMAIN Get(content, title).courses}
    ELSE {}

\* the last call of add_subgroup_container, when the route is in or past the
\* loop of add_geneds_to_structure and that call was made by it
LastGeneralAdd ==
    /\ pc \in {"add_geneds_to_structure", "apply_manual_fixes", "returned"}
    /\ adds # << >>
    /\ adds[Len(adds)].type = "General"
    /\ adds[Len(adds)].err = "none"

LastContainer == adds[Len(adds)].container

GeneralEducation == Get(ContentOf(structure, "General"), "General Education")

(***************************************************************************)
(* C1: once add_specialisation has returned for a specialisation, each     *)
(* course code occurs in the courses of at most one container of that      *)
(* specialisation's group.                                                 *)
(***************************************************************************)
C1_OneContainerPerCourse ==
    \A m \in DOMAIN AddedSpecs :
        LET content == ContentOf(structure, SpecialisationType(AddedSpecs[m]))
        IN  \A i, j \in DOMAIN content :
                i # j => CodesUnder(content, content[i].k) \cap CodesUnder(content, content[j].k) = {}

(***************************************************************************)
(* C2: a course that some Core-titled container of the curriculum lists is *)
(* in the courses of the first Core-titled container that lists it, and in *)
(* no other container of the group.                                        *)
(***************************************************************************)
C2_FirstCoreContainerKeeps ==
    \A m \in DOMAIN AddedSpecs :
        LET curriculum == find_one(specialisationsCOL, AddedSpecs[m]).curriculum
            content == ContentOf(structure, SpecialisationType(AddedSpecs[m]))
        IN  \A first \in DOMAIN curriculum :
            \A course \in Listed(curriculum[first]) :
                (/\ IsCoreTitle(curriculum[first])
                 /\ \A before \in 1..(first - 1) :
                        ~(IsCoreTitle(curriculum[before]) /\ course \in Listed(curriculum[before])))
                => /\ course \in CodesUnder(content, StoredTitle(curriculum[first]))
                   /\ \A other \in DOMAIN content :
                          content[other].k # StoredTitle(curriculum[first])
                              => course \notin CodesUnder(content, content[other].k)

(***************************************************************************)
(* C3: after a "gened" container of General without a course list, the     *)
(* General Education courses are the gen-ed pool of the program restricted *)
(* to the codes that no container with "core" in its title (whatever the   *)
(* case) of a group with "Major" or "Honours" in its key lists; so none of *)
(* those codes is among them, and without such a group they are the pool.  *)
(***************************************************************************)
\* a course of a "core" container of a Major or Honours group of the structure
IsDeclaredCore(code) ==
    \E g \in DOMAIN structure :
        /\ Contains("Major", structure[g].k) \/ Contains("Honours", structure[g].k)
        /\ \E c \in DOMAIN structure[g].v.content :
              /\ Contains("core", Lower(structure[g].v.content[c].k))
              /\ code \in CodesUnder(structure[g].v.content, structure[g].v.content[c].k)

PoolResolved ==
    /\ LastGeneralAdd
    /\ IsGenedContainer(LastContainer)
    /\ ~LastContainer.hasCourses
    /\ HasKey(genedPureRaw, programCode)

C3_GenEdsArePoolMinusCore ==
    PoolResolved =>
        LET pool == Get(genedPureRaw, programCode)
            geneds == GeneralEducation.courses
        IN  /\ AsMapping(geneds) = {item \in AsMapping(pool) : ~IsDeclaredCore(item[1])}
            /\ Len(geneds) = Cardinality(AsMapping(geneds))
            /\ \A i \in DOMAIN geneds : ~IsDeclaredCore(geneds[i].k)
            /\ (\A g \in DOMAIN structure :
                    ~Contains("Major", structure[g].k) /\ ~Contains("Honours", structure[g].k))
               => AsMapping(geneds) = AsMapping(pool)

\* a pool resolved against a Major whose lower-case "core" container removed a
\* course of the pool, and left others
C3_Witness ==
    /\ PoolResolved
    /\ \E i \in DOMAIN Get(genedPureRaw, programCode) :
          /\ IsDeclaredCore(Get(genedPureRaw, programCode)[i].k)
          /\ ~HasKey(GeneralEducation.courses, Get(genedPureRaw, programCode)[i].k)
    /\ GeneralEducation.courses # EmptyDict

(***************************************************************************)
(* C4: get_structure answers 400, and returns no structure, whenever the   *)
(* program code or one of the requested specialisation codes is not in the *)
(* record store.                                                           *)
(***************************************************************************)
SomeCodeAbsent ==
    \/ ~Found(programsCOL, programCode)
    \/ \E m \in DOMAIN RequestedSpecs(spec) : ~Found(specialisationsCOL, RequestedSpecs(spec)[m])

C4_AbsentCodeGives400 ==
    (/\ route = "getStructure"
     /\ pc \in {"returned", "raised"}
     /\ SomeCodeAbsent)
    => /\ response.status = 400
       /\ response.structure = EmptyDict

(***************************************************************************)
(* C5: every container whose type contains "rule", whichever group it was  *)
(* being added to, is under the "Rules" group, with the notes of the       *)
(* source container, and not under the group it was being added to.        *)
(***************************************************************************)
C5_RuleContainersGoToRules ==
    \A i \in DOMAIN adds :
        IsRuleContainer(adds[i].container) =>
            /\ HasKey(ContentOf(structure, "Rules"), StoredTitle(adds[i].container))
            /\ Get(ContentOf(structure, "Rules"), StoredTitle(adds[i].container)).notes
                   = adds[i].container.notes
            /\ ~HasKey(ContentOf(structure, adds[i].type), StoredTitle(adds[i].container))

(***************************************************************************)
(* C6: after a "gened" container of General with an explicit course list,  *)
(* the General Education courses are what the subgroup resolver gives for  *)
(* that list.                                                              *)
(***************************************************************************)
C6_ExplicitGenEdsAreResolved ==
    (/\ LastGeneralAdd
     /\ IsGenedContainer(LastContainer)
     /\ LastContainer.hasCourses)
    => {GeneralEducation.courses[i].k : i \in DOMAIN GeneralEducation.courses}
           = Listed(LastContainer)

(***************************************************************************)
(* C7: course_list_from_structure returns the course codes of every        *)
(* container whose type does not contain "rule", group after group,        *)
(* container after container, course after course, and nothing else.       *)
(***************************************************************************)
RECURSIVE Concat(_)
\* the concatenation of a sequence of sequences
Concat(lists) == IF lists = << >> THEN << >> ELSE Head(lists) \o Concat(Tail(lists))

\* the course codes of a stored container, none when its type contains "rule"
CodesOfContainer(content) ==
    IF Contains("rule", content.type) THEN << >> ELSE Keys(content.courses)

CodesOfStructure(struct) ==
    Concat([g \in DOMAIN struct |->
               Concat([c \in DOMAIN struct[g].v.content |->
                          CodesOfContainer(struct[g].v.content[c].v)])])

C7_CourseListIsTheCourseCodes ==
    (call.fn = "course_list_from_structure" /\ ret.done)
        => ret.val = CodesOfStructure(call.struct)

(***************************************************************************)
(* C8: for proto-edges that each hold a courses list, proto_edges_to_edges *)
(* returns, in input order, one edge {source: prerequisite, target:        *)
(* original} per element of each courses list, and nothing else; there are *)
(* as many edges as the lengths of the courses lists add up to.            *)
(***************************************************************************)
RECURSIVE SumOfLengths(_)
SumOfLengths(proto_edges) ==
    IF proto_edges = << >> THEN 0
    ELSE Len(Head(proto_edges).courses) + SumOfLengths(Tail(proto_edges))

\* the number of prerequisites listed before proto-edge p
Before(proto_edges, p) == SumOfLengths(SubSeq(proto_edges, 1, p - 1))

EveryCoursesListPresent(proto_edges) ==
    \A p \in DOMAIN proto_edges : proto_edges[p].isEmpty \/ proto_edges[p].hasCourses

Kept(edges, courses) ==
    {i \in DOMAIN edges : InList(edges[i].source, courses) /\ InList(edges[i].target, courses)}

\* the n-th position kept, counting from 1
NthKept(edges, courses, n) ==
    CHOOSE i \in Kept(edges, courses) :
        Cardinality({j \in Kept(edges, courses) : j <= i}) = n

C9_PruneIsAStableFilter ==
    (call.fn = "prune_edges" /\ ret.done)
    => /\ Len(ret.val) = Cardinality(Kept(call.edges, call.courses))
       /\ \A n \in DOMAIN ret.val : ret.val[n] = call.edges[NthKept(call.edges, call.courses, n)]
       /\ call.courses = << >> => ret.val = << >>

\* an edge dropped for its target alone, between two edges kept
C9_Witness ==
    /\ call.fn = "prune_edges"
    /\ ret.done
    /\ Len(ret.val) = 2
    /\ \E i \in DOMAIN call.edges :
          /\ InList(call.edges[i].source, call.courses)
          /\ ~InList(call.edges[i].target, call.courses)
          /\ \E h, j \in Kept(call.edges, call.courses) : h < i /\ i < j

(***************************************************************************)
(* C10: for a disjunction whose number of codes differs from the number of *)
(* its descriptions, convert_subgroup_object_to_courses_dict has one       *)
(* policy, whichever is longer: it rejects them all, or zips them all.     *)
(***************************************************************************)
\* a disjunction with a list of descriptions of another length
IsMismatched(object, description) ==
    /\ Contains(" or ", object)
    /\ description.isList
    /\ Len(Split(object, " or ")) # Len(description.items)

C10_OnePolicyForMismatches ==
    (/\ call.fn = "convert_subgroup_object_to_courses_dict"
     /\ ret.done
     /\ IsMismatched(call.object, call.description))
    => \A object \in ObjectSpecs, description \in Descriptions :
           IsMismatched(object, description)
               => (convert_subgroup_object_to_courses_dict(object, description).err = "none")
                      = (ret.err = "none")

(***************************************************************************)
(* C11: when get_structure returns a structure, get_structure_course_list, *)
(* for the same program code and spec on the same records, returns a list  *)
(* that holds exactly the course codes of the containers of that structure *)
(* whose type does not contain "rule".                                     *)
(***************************************************************************)
\* the elements of a list, as a set
Elements(l) == {l[i] : i \in DOMAIN l}

C11_CourseListFlattensGetStructure ==
    (route = "getStructure" /\ pc = "returned")
    => /\ get_structure_course_list(programCode, spec).status = 200
       /\ Elements(get_structure_course_list(programCode, spec).courses)
              = Elements(CodesOfStructure(response.structure))

(***************************************************************************)
(* C12: get_course returns the record of the live collection, with         *)
(* is_legacy false, when the live collection holds the code; otherwise the *)
(* record of the most recent archived year that holds it, with is_legacy   *)
(* true; and fails with 400 when neither holds it.                         *)
(***************************************************************************)
Holds(collection, code) == \E i \in DOMAIN collection : collection[i].code = code

\* the title of the record of code in collection
TitleIn(collection, code) ==
    collection[CHOOSE i \in DOMAIN collection : collection[i].code = code].title

YearsHolding(code) == {year \in ARCHIVED_YEARS : Holds(archivesDB[year], code)}

MostRecent(years) == CHOOSE year \in years : \A other \in years : other <= year

C12_LiveFirstThenMostRecentArchive ==
    (call.fn = "get_course" /\ ret.done)
    => IF Holds(coursesCOL, call.object)
       THEN /\ ret.err = "none"
            /\ Get(ret.val, "code") = call.object
            /\ Get(ret.val, "title") = TitleIn(coursesCOL, call.object)
            /\ Get(ret.val, "is_legacy") = FALSE
       ELSE IF YearsHolding(call.object) # {}
       THEN /\ ret.err = "none"
            /\ Get(ret.val, "code") = call.object
            /\ Get(ret.val, "title")
                   = TitleIn(archivesDB[MostRecent(YearsHolding(call.object))], call.object)
            /\ Get(ret.val, "is_legacy") = TRUE
       ELSE ret.err = "HTTP400"

\* a code of two archived years, whose records differ, answered from the archives
C12_Witness ==
    /\ call.fn = "get_course"
    /\ ret.done
    /\ ~Holds(coursesCOL, call.object)
    /\ Cardinality(YearsHolding(call.object)) = 2
    /\ \E year \in YearsHolding(call.object) :
           TitleIn(archivesDB[year], call.object) # Get(ret.val, "title")
    /\ Get(ret.val, "is_legacy") = TRUE

(***************************************************************************)
(* C13: add_geneds_courses run again on the structure that holds its       *)
(* output, for the same container, pool and specialisation groups, leaves  *)
(* the same General Education courses, whatever the order in which the     *)
(* second run enumerates the eligible gen-eds.                             *)
(***************************************************************************)
\* the General Education courses of a structure
GenEdsOf(struct) == Get(ContentOf(struct, "General"), "General Education").courses

C13_GenEdResolutionIsIdempotent ==
    (LastGeneralAdd /\ IsGenedContainer(LastContainer))
    => \A gen_ed_courses \in GenEdOrders(structure, programCode, LastContainer) :
           AsMapping(GenEdsOf(add_geneds_courses(programCode, structure, LastContainer,
                                                 gen_ed_courses).structure))
               = AsMapping(GenEdsOf(structure))

\* the gen-eds resolved from the pool, two or more of them, so that the second
\* run has several orders to enumerate them in
C13_Witness ==
    /\ LastGeneralAdd
    /\ IsGenedContainer(LastContainer)
    /\ ~LastContainer.hasCourses
    /\ Len(GenEdsOf(structure)) >= 2
    /\ Cardinality(GenEdOrders(structure, programCode, LastContainer)) >= 2

(***************************************************************************)
(* C14: the groups of the structure get_structure returns are the groups   *)
(* of the requested specialisations, in the order of their codes in the    *)
(* spec string, then "General", then "Rules".                              *)
(***************************************************************************)
\* the codes of the spec string, between its "+"
CodesOfSpec == IF spec = "" THEN << >> ELSE Split(spec, "+")

C14_GroupsFollowTheSpecString ==
    (route = "getStructure" /\ pc = "returned")
    => Keys(response.structure)
           = [m \in DOMAIN CodesOfSpec |-> SpecialisationType(CodesOfSpec[m])]
                 \o <<"General", "Rules">>

\* a structure returned for two specialisations
C14_Witness ==
    /\ route = "getStructure"
    /\ pc = "returned"
    /\ Len(CodesOfSpec) = 2
    /\ Len(response.structure) = 4

(***************************************************************************)
(* C15: add_specialisation hands the containers of the curriculum to       *)
(* add_subgroup_container in this order: those whose title contains "Core" *)
(* in curriculum order, then the others in curriculum order; and the       *)
(* titles of the group's content are in that order.                        *)
(***************************************************************************)
TitleHasCore(container) == Contains("Core", container.title)

TitleHasNoCore(container) == ~Contains("Core", container.title)

\* the containers of a curriculum, the Core ones first
CoresFirst(curriculum) ==
    SelectSeq(curriculum, TitleHasCore) \o SelectSeq(curriculum, TitleHasNoCore)

\* the containers handed to add_subgroup_container for the group, in call order
HandedTo(group) ==
    LET calls == SelectSeq(adds, LAMBDA a : a.type = group)
    IN  [i \in DOMAIN calls |-> calls[i].container]

RECURSIVE FirstOccurrences(_)
\* a list without the later repetitions of its elements
FirstOccurrences(l) ==
    IF l = << >> THEN << >>
    ELSE LET front == FirstOccurrences(SubSeq(l, 1, Len(l) - 1))
         IN  IF InList(l[Len(l)], front) THEN front ELSE Append(front, l[Len(l)])

C15_CoreContainersGoFirst ==
    \A m \in DOMAIN AddedSpecs :
        LET group == SpecialisationType(AddedSpecs[m])
            expected == CoresFirst(find_one(specialisationsCOL, AddedSpecs[m]).curriculum)
        IN  /\ HandedTo(group) = expected
            /\ Keys(ContentOf(structure, group))
                   = FirstOccurrences([i \in DOMAIN expected |-> StoredTitle(expected[i])])

\* an added specialisation whose curriculum has a Core container after another
\* container: the two are handed over in the other order
C15_Witness ==
    \E m \in DOMAIN AddedSpecs :
        LET curriculum == find_one(specialisationsCOL, AddedSpecs[m]).curriculum
        IN  /\ Len(curriculum) = 2
            /\ TitleHasNoCore(curriculum[1])
            /\ TitleHasCore(curriculum[2])
            /\ HandedTo(SpecialisationType(AddedSpecs[m])) = <<curriculum[2], curriculum[1]>>

(***************************************************************************)
(* C16: "General" and "Rules" exist before any container is added to       *)
(* either: no call of add_subgroup_container whose target is one of them,  *)
(* a rule-typed container of a specialisation included, finds the group    *)
(* missing.                                                                *)
(***************************************************************************)
\* the group a call of add_subgroup_container stores its container under
TargetOf(add) == IF IsRuleContainer(add.container) THEN "Rules" ELSE add.type

C16_GroupsExistBeforeAdds ==
    \A i \in DOMAIN adds :
        TargetOf(adds[i]) \in {"General", "Rules"} => adds[i].err # "KeyError"

(***************************************************************************)
(* C17: the exceptions of one add_specialisation call filter nothing       *)
(* elsewhere.  A course that a container of a specialisation lists, and    *)
(* that no other Core container of the same curriculum lists, is in that   *)
(* container whatever the other specialisations hold; and a container of   *)
(* non_spec_data is stored with every course it lists.                     *)
(***************************************************************************)
\* no other container of the curriculum is stored under the title of the c-th
OnlyOneTitled(curriculum, c) ==
    \A d \in DOMAIN curriculum :
        d # c => StoredTitle(curriculum[d]) # StoredTitle(curriculum[c])

\* no other Core-titled container of the curriculum lists the course
NoOtherCoreLists(curriculum, c, course) ==
    \A d \in DOMAIN curriculum :
        (d # c /\ TitleHasCore(curriculum[d])) => course \notin Listed(curriculum[d])

C17_ExceptionsArePrivate ==
    /\ \A m \in DOMAIN AddedSpecs :
           LET curriculum == find_one(specialisationsCOL, AddedSpecs[m]).curriculum
               content == ContentOf(structure, SpecialisationType(AddedSpecs[m]))
           IN  \A c \in DOMAIN curriculum :
               \A course \in Listed(curriculum[c]) :
                   (OnlyOneTitled(curriculum, c) /\ NoOtherCoreLists(curriculum, c, course))
                       => course \in CodesUnder(content, StoredTitle(curriculum[c]))
    /\ (LastGeneralAdd /\ ~IsGenedContainer(LastContainer))
           => CodesUnder(ContentOf(structure, TargetOf(adds[Len(adds)])),
                         StoredTitle(LastContainer))
                  = Listed(LastContainer)

\* one course in a container of each of two specialisations, and in a container
\* of General as well
C17_Witness ==
    /\ pc = "returned"
    /\ Len(AddedSpecs) = 2
    /\ \E course \in {"COMP1511", "MATH1131"} :
          /\ \A m \in DOMAIN AddedSpecs :
                 LET content == ContentOf(structure, SpecialisationType(AddedSpecs[m]))
                 IN  \E c \in DOMAIN content : course \in CodesUnder(content, content[c].k)
          /\ \E c \in DOMAIN ContentOf(structure, "General") :
                 /\ ContentOf(structure, "General")[c].k # "General Education"
                 /\ course \in CodesUnder(ContentOf(structure, "General"),
                                          ContentOf(structure, "General")[c].k)

(***************************************************************************)
(* C18: proto_edges_to_edges does not fail on a proto-edge whose courses   *)
(* list is empty or missing: it returns the edges of the other proto-edges *)
(* and none for that one.                                                  *)
(***************************************************************************)
\* the edges a proto-edge stands for, none when it holds no courses list
EdgesFor(proto_edge) ==
    IF proto_edge.isEmpty \/ ~proto_edge.hasCourses THEN << >>
    ELSE [c \in DOMAIN proto_edge.courses |->
             [source |-> proto_edge.courses[c], target |-> proto_edge.original]]

C18_MissingCoursesGiveNoEdges ==
    (call.fn = "proto_edges_to_edges" /\ ret.done)
    => /\ ret.err = "none"
       /\ ret.val = Concat([p \in DOMAIN call.proto_edges |-> EdgesFor(call.proto_edges[p])])

(***************************************************************************)
(* C19: get_structure returns a structure only when every container of the *)
(* program's non_spec_data was processed to its end; a failure while       *)
(* processing one of them never leaves the later ones silently out of a    *)
(* returned structure.                                                     *)
(***************************************************************************)
\* processing the container fails: it needs the gen-ed pool of a program the
\* pool file does not hold
NeedsMissingPool(container) ==
    /\ IsGenedContainer(container)
    /\ ~container.hasCourses
    /\ ~HasKey(genedPureRaw, programCode)

C19_NoSilentlyMissingContainers ==
    (route = "getStructure" /\ pc = "returned")
    => LET non_spec_data == find_one(programsCOL, programCode).non_spec_data
       IN  /\ HandedTo("General") = non_spec_data
           /\ \A c \in DOMAIN non_spec_data : ~NeedsMissingPool(non_spec_data[c])

(***************************************************************************)
(* C20: for an object without " or ", convert_subgroup_object_to_courses_  *)
(* dict returns {object: description} when object starts with four upper-  *)
(* case letters and four digits, and otherwise the codes and titles the    *)
(* course search finds for the fragment anchored at the start of the code: *)
(* those of the live collection, else of the most recent archive that has  *)
(* any, else none.                                                         *)
(***************************************************************************)
\* the pairs (code, title) of the courses of a collection whose code starts
\* with the fragment, whatever the case
Hits(collection, fragment) ==
    {<<collection[i].code, Str(collection[i].title)>> :
        i \in {j \in DOMAIN collection :
                  /\ Len(fragment) <= Len(collection[j].code)
                  /\ Lower(SubSeq(collection[j].code, 1, Len(fragment))) = Lower(fragment)}}

YearsWithHits(fragment) == {year \in ARCHIVED_YEARS : Hits(archivesDB[year], fragment) # {}}

SearchResult(fragment) ==
    IF Hits(coursesCOL, fragment) # {} THEN Hits(coursesCOL, fragment)
    ELSE IF YearsWithHits(fragment) # {}
         THEN Hits(archivesDB[MostRecent(YearsWithHits(fragment))], fragment)
         ELSE {}

C20_CodeOrSearch ==
    (/\ call.fn = "convert_subgroup_object_to_courses_dict"
     /\ ret.done
     /\ ~Contains(" or ", call.object))
    => /\ ret.err = "none"
       /\ IF MatchesCourseCode(call.object)
          THEN ret.val = <<Item(call.object, call.description)>>
          ELSE /\ AsMapping(ret.val) = SearchResult(call.object)
               /\ Len(ret.val) = Cardinality(SearchResult(call.object))

\* a fragment the search answers with two courses
C20_Witness ==
    /\ call.fn = "convert_subgroup_object_to_courses_dict"
    /\ ret.done
    /\ ~Contains(" or ", call.object)
    /\ ~MatchesCourseCode(call.object)
    /\ Len(ret.val) = 2

(***************************************************************************)
(* C21: the group add_specialisation creates is under "Major - <code>"     *)
(* when the code ends in "1", "Minor - <code>" when it ends in "2" and     *)
(* "Honours - <code>" otherwise; it has the name of the specialisation,    *)
(* and its content holds the containers of the curriculum, under their     *)
(* stored titles, and nothing else.                                        *)
(***************************************************************************)
LastCharacter(code) == SubSeq(code, Len(code), Len(code))

KindOf(code) ==
    CASE LastCharacter(code) = "1" -> "Major"
      [] LastCharacter(code) = "2" -> "Minor"
      [] OTHER -> "Honours"

GroupKey(code) == KindOf(code) \o " - " \o code

\* the title a container is to be stored under
TitleToStore(container) ==
    IF container.hasType /\ container.type = "gened" THEN "General Education"
    ELSE container.title

C21_GroupOfASpecialisation ==
    \A m \in DOMAIN AddedSpecs :
        LET spn == find_one(specialisationsCOL, AddedSpecs[m])
        IN  /\ HasKey(structure, GroupKey(AddedSpecs[m]))
            /\ \A kind \in {"Major", "Minor", "Honours"} :
                   kind # KindOf(AddedSpecs[m])
                       => ~HasKey(structure, kind \o " - " \o AddedSpecs[m])
            /\ Get(structure, GroupKey(AddedSpecs[m])).name = spn.name
            /\ Elements(Keys(Get(structure, GroupKey(AddedSpecs[m])).content))
                   = {TitleToStore(spn.curriculum[c]) : c \in DOMAIN spn.curriculum}

\* a Minor and a Major added by one request, the Major with its containers
C21_Witness ==
    /\ Len(AddedSpecs) = 2
    /\ KindOf(AddedSpecs[1]) = "Minor"
    /\ KindOf(AddedSpecs[2]) = "Major"
    /\ Len(ContentOf(structure, GroupKey(AddedSpecs[2]))) = 2

(***************************************************************************)
(* C22: every container handed to add_subgroup_container and stored, in a  *)
(* specialisation's group, in "General" or in "Rules", is under "General   *)
(* Education" when its type is "gened" and under its own title otherwise;  *)
(* the title of a "gened" container is not a title of the group unless     *)
(* another container brought it.                                           *)
(***************************************************************************)
\* another container handed over for the same group has this title to store
BroughtByAnother(i, title) ==
    \E j \in DOMAIN adds :
        /\ j # i
        /\ TargetOf(adds[j]) = TargetOf(adds[i])
        /\ TitleToStore(adds[j].container) = title

C22_GenedsAreGeneralEducation ==
    \A i \in DOMAIN adds :
        adds[i].err = "none"
        => /\ HasKey(ContentOf(structure, TargetOf(adds[i])), TitleToStore(adds[i].container))
           /\ (TitleToStore(adds[i].container) # adds[i].container.title
                   /\ ~BroughtByAnother(i, adds[i].container.title))
              => ~HasKey(ContentOf(structure, TargetOf(adds[i])), adds[i].container.title)

\* a "gened" container of another title stored in a specialisation's group and
\* one stored in General, and a container without type stored under its title
C22_Witness ==
    /\ \E i, j \in DOMAIN adds :
          /\ adds[i].err = "none" /\ adds[j].err = "none"
          /\ adds[i].type # "General" /\ adds[j].type = "General"
          /\ adds[i].container.title = "Breadth Electives"
          /\ adds[j].container.title = "Gen Ed Options"
          /\ HasKey(ContentOf(structure, adds[i].type), "General Education")
          /\ HasKey(ContentOf(structure, "General"), "General Education")

(***************************************************************************)
(* C23: the function compose(f1, ..., fn) returns applies f1 to the        *)
(* argument first, then f2 to the result, and so on, fn last.              *)
(***************************************************************************)
RECURSIVE InOrderGiven(_, _)
\* fn(...f2(f1(x))...)
InOrderGiven(functions, x) ==
    IF functions = << >> THEN x
    ELSE InOrderGiven(Tail(functions), Apply(Head(functions), x))

C23_ComposeAppliesInOrderGiven ==
    (call.fn = "compose" /\ ret.done /\ call.functions # << >>)
    => /\ ret.err = "none"
       /\ ret.val = InOrderGiven(call.functions, call.argument)

====
